---- MODULE Spec2Model ----
(***************************************************************************)
(* State machine of the AiContribFHE contract (src/unnamed/part_000).      *)
(*                                                                         *)
(* Every public function of the contract is one action.  A call executes   *)
(* as one EVM transaction: a failed require, a failed signature check, a   *)
(* failed abi.decode or an out-of-bounds index reverts the transaction, so *)
(* storage and the event log keep their values of before the call.  The    *)
(* outcome of a call ("ok" or the reason of the revert) is an operator of  *)
(* the state before the call and of the arguments, computed by the checks  *)
(* of the function in the order the code makes them.                       *)
(*                                                                         *)
(* The FHE library is external to the repository.  A ciphertext is         *)
(* modelled as a tagged plaintext [initialized, plain]; FHE.add adds the   *)
(* tags modulo 2^32; FHE.requestDecryption hands out request ids from a    *)
(* counter; FHE.checkSignatures is the verdict of the oracle verifier on   *)
(* the proof.                                                              *)
(***************************************************************************)
EXTENDS Integers, Sequences, FiniteSets, TLC

(* ---------------------------- bounds ----------------------------------- *)
MaxUpdates == 2
MaxRequests == 2
MaxReveals == 2
MaxTimestamp == 2

(* ---------------------------- machine words ---------------------------- *)
\* A word is written <<hi, lo>> in base 2^16: its value is hi * 2^16 + lo.
\* A uint32 is a word with hi < 2^16; the words of a bytes payload may be
\* wider.
Limb == 65536
WordBytes == 32

Word(hi, lo) == <<hi, lo>>

Small(n) == Word(0, n)

Zero32 == Small(0)

One32 == Small(1)

MaxUint32 == Word(Limb - 1, Limb - 1)

\* 2^32, the least word that does not fit a uint32
TooWide == Word(Limb, 0)

FitsUint32(w) == w[1] < Limb

\* uint32 addition, wrapping modulo 2^32
Add32(a, b) ==
    LET lo == a[2] + b[2]
        hi == a[1] + b[1] + (lo \div Limb)
    IN Word(hi % Limb, lo % Limb)

UpdateIds == 0..MaxUpdates
RequestIds == 0..MaxRequests
Timestamps == 1..MaxTimestamp

(* ---------------------------- ciphertexts ------------------------------ *)
\* euint32 default value of a storage slot: the zero handle
Uninitialized == [initialized |-> FALSE, plain |-> Zero32]

\* FHE.isInitialized
IsInitialized(ct) == ct.initialized

\* FHE.asEuint32: trivial encryption of a uint32
AsEuint32(v) == [initialized |-> TRUE, plain |-> v]

\* FHE.add on euint32: an uninitialized operand counts as an encryption of 0
FheAdd(a, b) == [initialized |-> TRUE, plain |-> Add32(a.plain, b.plain)]

\* ciphertext handles a caller may pass to submitEncryptedUpdate
WeightInputs == {Uninitialized, AsEuint32(Small(7))}

MetricInputs == {AsEuint32(Small(9))}

(* ---------------------------- cleartext payloads ----------------------- *)
\* A payload is the sequence of the 32-byte words of the bytes argument.
Plain == {One32, MaxUint32}

\* payloads sent to decryptContribution: empty, a bare scalar, and lists of
\* zero, one and two elements, one with an element wider than 32 bits
CleartextInputs ==
    {<<>>, <<One32>>, <<Small(32), Small(0)>>}
      \cup {<<Small(32), Small(1), v>> : v \in Plain \cup {TooWide}}
      \cup {<<Small(32), Small(2), One32, MaxUint32>>}

\* payloads sent to decryptTotalContribution: empty, a scalar, a wide scalar
TotalCleartextInputs == {<<>>, <<One32>>, <<TooWide>>}

DecodeFailure == [ok |-> FALSE, results |-> <<>>]

\* abi.decode(cleartexts, (uint32[])) on word-aligned payloads: the head word
\* is the byte offset of the array, the word there is its length, the elements
\* follow; each element must fit 32 bits.  A payload is shorter than 2^16
\* bytes, so an offset or a length with a high part points outside it.
AbiDecodeUint32Array(cleartexts) ==
    LET size == WordBytes * Len(cleartexts) IN
    IF size < WordBytes THEN DecodeFailure
    ELSE LET offset == cleartexts[1][2] IN
         IF cleartexts[1][1] # 0 \/ ~(offset + 31 < size) THEN DecodeFailure
         ELSE LET at == offset \div WordBytes
                  length == cleartexts[at + 1][2] IN
              IF \/ cleartexts[at + 1][1] # 0
                 \/ offset + WordBytes + WordBytes * length > size
              THEN DecodeFailure
              ELSE LET elems == [k \in 1..length |-> cleartexts[at + 1 + k]] IN
                   IF \E k \in 1..length : ~FitsUint32(elems[k])
                   THEN DecodeFailure
                   ELSE [ok |-> TRUE, results |-> elems]

\* abi.decode(cleartexts, (uint32)): the first word, which must fit 32 bits
AbiDecodeUint32(cleartexts) ==
    IF Len(cleartexts) < 1 THEN DecodeFailure
    ELSE IF ~FitsUint32(cleartexts[1]) THEN DecodeFailure
    ELSE [ok |-> TRUE, results |-> <<cleartexts[1]>>]

(* ---------------------------- oracle verifier -------------------------- *)
Proofs == {"valid", "forged"}

\* FHE.checkSignatures: passes exactly on a proof the verifier accepts
CheckSignatures(requestId, cleartexts, proof) == proof = "valid"

(* ---------------------------- state ------------------------------------ *)
VARIABLES
    updateCount,                  \* uint256 public updateCount
    encryptedUpdates,             \* mapping(uint256 => EncryptedModelUpdate)
    decryptedContributions,       \* mapping(uint256 => DecryptedContribution)
    encryptedContributionTotals,  \* mapping(uint256 => euint32)
    participantList,              \* uint256[]
    requestToUpdateId,            \* mapping(uint256 => uint256)
    counterRequest,               \* next request id of FHE.requestDecryption
    events,                       \* the contract's event log
    blockTimestamp,               \* block.timestamp of the latest submission
    totalValue                    \* local of decryptTotalContribution, as last decoded

\* contract storage and the event log
storage == <<updateCount, encryptedUpdates, decryptedContributions,
             encryptedContributionTotals, participantList, requestToUpdateId,
             counterRequest, events>>

vars == <<updateCount, encryptedUpdates, decryptedContributions,
          encryptedContributionTotals, participantList, requestToUpdateId,
          counterRequest, events, blockTimestamp, totalValue>>

\* default values of the two struct mappings
EmptyUpdate ==
    [id |-> 0, encryptedWeights |-> Uninitialized,
     encryptedMetrics |-> Uninitialized, timestamp |-> 0]

EmptyContribution ==
    [participantId |-> 0, shapleyValue |-> Zero32, isRevealed |-> FALSE]

\* events
UpdateSubmitted(id, timestamp) == [name |-> "UpdateSubmitted", args |-> <<id, timestamp>>]

DecryptionRequested(id) == [name |-> "DecryptionRequested", args |-> <<id>>]

ContributionDecrypted(id) == [name |-> "ContributionDecrypted", args |-> <<id>>]

Init ==
    /\ updateCount = 0
    /\ encryptedUpdates = [i \in UpdateIds |-> EmptyUpdate]
    /\ decryptedContributions = [i \in UpdateIds |-> EmptyContribution]
    /\ encryptedContributionTotals = [i \in UpdateIds |-> Uninitialized]
    /\ participantList = <<>>
    /\ requestToUpdateId = [r \in RequestIds |-> 0]
    /\ counterRequest = 0
    /\ events = <<>>
    /\ blockTimestamp = 1
    /\ totalValue = Zero32

\* number of ContributionDecrypted events in the log
Reveals == Cardinality({k \in 1..Len(events) : events[k].name = "ContributionDecrypted"})

(* ---------------------------- operations ------------------------------- *)
\* mutant: newId is read before the counter is incremented
submitEncryptedUpdate_StaleId(encryptedWeights, encryptedMetrics, timestamp) ==
    /\ updateCount < MaxUpdates
    /\ timestamp >= blockTimestamp
    /\ blockTimestamp' = timestamp
    /\ LET newId == updateCount IN
       /\ updateCount' = updateCount + 1
       /\ encryptedUpdates' = [encryptedUpdates EXCEPT ![newId] =
              [id |-> newId, encryptedWeights |-> encryptedWeights,
               encryptedMetrics |-> encryptedMetrics, timestamp |-> timestamp]]
       /\ decryptedContributions' = [decryptedContributions EXCEPT ![newId] =
              [participantId |-> newId, shapleyValue |-> Zero32, isRevealed |-> FALSE]]
       /\ events' = Append(events, UpdateSubmitted(newId, timestamp))
    /\ UNCHANGED <<encryptedContributionTotals, participantList,
                   requestToUpdateId, counterRequest, totalValue>>

\* mutant: a submission waits until every requested reveal has been delivered
submitEncryptedUpdate_WaitsForCallback(encryptedWeights, encryptedMetrics, timestamp) ==
    /\ updateCount < MaxUpdates
    /\ timestamp >= blockTimestamp
    /\ \A r \in RequestIds :
          r < counterRequest =>
              decryptedContributions[requestToUpdateId[r]].isRevealed
    /\ blockTimestamp' = timestamp
    /\ LET newId == updateCount + 1 IN
       /\ updateCount' = newId
       /\ encryptedUpdates' = [encryptedUpdates EXCEPT ![newId] =
              [id |-> newId, encryptedWeights |-> encryptedWeights,
               encryptedMetrics |-> encryptedMetrics, timestamp |-> timestamp]]
       /\ decryptedContributions' = [decryptedContributions EXCEPT ![newId] =
              [participantId |-> newId, shapleyValue |-> Zero32, isRevealed |-> FALSE]]
       /\ events' = Append(events, UpdateSubmitted(newId, timestamp))
    /\ UNCHANGED <<encryptedContributionTotals, participantList,
                   requestToUpdateId, counterRequest, totalValue>>

\* mutant: a submission also restamps the update stored before it
submitEncryptedUpdate_Restamps(encryptedWeights, encryptedMetrics, timestamp) ==
    /\ updateCount < MaxUpdates
    /\ timestamp >= blockTimestamp
    /\ blockTimestamp' = timestamp
    /\ LET newId == updateCount + 1
           stored == [id |-> newId, encryptedWeights |-> encryptedWeights,
                      encryptedMetrics |-> encryptedMetrics, timestamp |-> timestamp]
       IN
       /\ updateCount' = newId
       /\ encryptedUpdates' =
              IF updateCount = 0
              THEN [encryptedUpdates EXCEPT ![newId] = stored]
              ELSE [encryptedUpdates EXCEPT ![newId] = stored,
                                            ![updateCount].timestamp = timestamp]
       /\ decryptedContributions' = [decryptedContributions EXCEPT ![newId] =
              [participantId |-> newId, shapleyValue |-> Zero32, isRevealed |-> FALSE]]
       /\ events' = Append(events, UpdateSubmitted(newId, timestamp))
    /\ UNCHANGED <<encryptedContributionTotals, participantList,
                   requestToUpdateId, counterRequest, totalValue>>

\* mutant: a submission also clears the aggregate total of the new id
submitEncryptedUpdate_ClearsTotal(encryptedWeights, encryptedMetrics, timestamp) ==
    /\ updateCount < MaxUpdates
    /\ timestamp >= blockTimestamp
    /\ blockTimestamp' = timestamp
    /\ LET newId == updateCount + 1 IN
       /\ updateCount' = newId
       /\ encryptedUpdates' = [encryptedUpdates EXCEPT ![newId] =
              [id |-> newId, encryptedWeights |-> encryptedWeights,
               encryptedMetrics |-> encryptedMetrics, timestamp |-> timestamp]]
       /\ decryptedContributions' = [decryptedContributions EXCEPT ![newId] =
              [participantId |-> newId, shapleyValue |-> Zero32, isRevealed |-> FALSE]]
       /\ encryptedContributionTotals' =
              [encryptedContributionTotals EXCEPT ![newId] = Uninitialized]
       /\ events' = Append(events, UpdateSubmitted(newId, timestamp))
    /\ UNCHANGED <<participantList, requestToUpdateId, counterRequest, totalValue>>

\* timestamp: block.timestamp of the block the call is mined in, which is
\* not earlier than the block of the previous submission
submitEncryptedUpdate(encryptedWeights, encryptedMetrics, timestamp) ==
    /\ updateCount < MaxUpdates
    /\ timestamp >= blockTimestamp
    /\ blockTimestamp' = timestamp
    /\ LET newId == updateCount + 1 IN
       /\ updateCount' = newId
       /\ encryptedUpdates' = [encryptedUpdates EXCEPT ![newId] =
              [id |-> newId, encryptedWeights |-> encryptedWeights,
               encryptedMetrics |-> encryptedMetrics, timestamp |-> timestamp]]
       /\ decryptedContributions' = [decryptedContributions EXCEPT ![newId] =
              [participantId |-> newId, shapleyValue |-> Zero32, isRevealed |-> FALSE]]
       /\ events' = Append(events, UpdateSubmitted(newId, timestamp))
    /\ UNCHANGED <<encryptedContributionTotals, participantList,
                   requestToUpdateId, counterRequest, totalValue>>

\* mutant: a request is refused while another request for the id is pending
requestUpdateDecryptionResult_OnePending(updateId) ==
    IF decryptedContributions[updateId].isRevealed THEN "Already decrypted"
    ELSE IF \E r \in RequestIds : r < counterRequest /\ requestToUpdateId[r] = updateId
         THEN "Already requested"
    ELSE "ok"

\* mutant: the require on isRevealed is missing
requestUpdateDecryptionResult_NoGuard(updateId) == "ok"

\* outcome of requestUpdateDecryption(updateId)
requestUpdateDecryptionResult(updateId) ==
    IF decryptedContributions[updateId].isRevealed THEN "Already decrypted"
    ELSE "ok"

requestUpdateDecryption(updateId) ==
    IF requestUpdateDecryptionResult(updateId) # "ok"
    THEN UNCHANGED vars
    ELSE /\ counterRequest < MaxRequests
         /\ LET reqId == counterRequest IN
            /\ counterRequest' = counterRequest + 1
            /\ requestToUpdateId' = [requestToUpdateId EXCEPT ![reqId] = updateId]
            /\ events' = Append(events, DecryptionRequested(updateId))
         /\ UNCHANGED <<updateCount, encryptedUpdates, decryptedContributions,
                        encryptedContributionTotals, participantList,
                        blockTimestamp, totalValue>>

\* mutant: the require on the resolved update id is missing
decryptContributionResult_NoLookup(requestId, cleartexts, proof) ==
    LET decoded == AbiDecodeUint32Array(cleartexts) IN
    IF ~CheckSignatures(requestId, cleartexts, proof) THEN "Invalid signatures"
    ELSE IF ~decoded.ok THEN "Decode failed"
    ELSE IF Len(decoded.results) = 0 THEN "Index out of bounds"
    ELSE "ok"

\* mutant: the payload is decoded before the signatures are checked
decryptContributionResult_DecodeFirst(requestId, cleartexts, proof) ==
    LET updateId == requestToUpdateId[requestId]
        decoded == AbiDecodeUint32Array(cleartexts)
    IN
    IF updateId = 0 THEN "Invalid request"
    ELSE IF ~decoded.ok THEN "Decode failed"
    ELSE IF Len(decoded.results) = 0 THEN "Index out of bounds"
    ELSE IF ~CheckSignatures(requestId, cleartexts, proof) THEN "Invalid signatures"
    ELSE "ok"

\* mutant: the call to FHE.checkSignatures is missing
decryptContributionResult_NoSignatures(requestId, cleartexts, proof) ==
    LET updateId == requestToUpdateId[requestId]
        decoded == AbiDecodeUint32Array(cleartexts)
    IN
    IF updateId = 0 THEN "Invalid request"
    ELSE IF ~decoded.ok THEN "Decode failed"
    ELSE IF Len(decoded.results) = 0 THEN "Index out of bounds"
    ELSE "ok"

\* outcome of decryptContribution(requestId, cleartexts, proof)
decryptContributionResult(requestId, cleartexts, proof) ==
    LET updateId == requestToUpdateId[requestId]
        decoded == AbiDecodeUint32Array(cleartexts)
    IN
    IF updateId = 0 THEN "Invalid request"
    ELSE IF ~CheckSignatures(requestId, cleartexts, proof) THEN "Invalid signatures"
    ELSE IF ~decoded.ok THEN "Decode failed"
    ELSE IF Len(decoded.results) = 0 THEN "Index out of bounds"
    ELSE "ok"

\* mutant: the last element of the decoded list is revealed
RevealedValue_Last(results) == results[Len(results)]

\* results[0]: the element of the decoded list that is revealed
RevealedValue(results) == results[1]

\* lines 90-92: the record of updateId takes the value and is revealed
markRevealed(updateId, value) ==
    decryptedContributions' = [decryptedContributions EXCEPT ![updateId] =
        [@ EXCEPT !.shapleyValue = value, !.isRevealed = TRUE]]

\* mutant: the id is pushed on every accepted callback
accumulate_AlwaysPush(updateId, value) ==
    LET fresh == ~IsInitialized(encryptedContributionTotals[updateId])
        base == IF fresh THEN AsEuint32(Zero32)
                         ELSE encryptedContributionTotals[updateId]
    IN
    /\ participantList' = Append(participantList, updateId)
    /\ encryptedContributionTotals' =
           [encryptedContributionTotals EXCEPT ![updateId] =
               FheAdd(base, AsEuint32(value))]

\* mutant: the total is set to the value instead of added to
accumulate_Overwrite(updateId, value) ==
    LET fresh == ~IsInitialized(encryptedContributionTotals[updateId]) IN
    /\ participantList' = IF fresh THEN Append(participantList, updateId)
                                    ELSE participantList
    /\ encryptedContributionTotals' =
           [encryptedContributionTotals EXCEPT ![updateId] = AsEuint32(value)]

\* lines 94-102: the total of updateId is created on first use, then added to
accumulate(updateId, value) ==
    LET fresh == ~IsInitialized(encryptedContributionTotals[updateId])
        base == IF fresh THEN AsEuint32(Zero32)
                         ELSE encryptedContributionTotals[updateId]
    IN
    /\ participantList' = IF fresh THEN Append(participantList, updateId)
                                    ELSE participantList
    /\ encryptedContributionTotals' =
           [encryptedContributionTotals EXCEPT ![updateId] =
               FheAdd(base, AsEuint32(value))]

\* mutant: the record and the total are indexed by the request id
decryptContribution_ByRequestId(requestId, cleartexts, proof) ==
    LET results == AbiDecodeUint32Array(cleartexts).results IN
    IF decryptContributionResult(requestId, cleartexts, proof) # "ok"
    THEN UNCHANGED vars
    ELSE /\ Reveals < MaxReveals
         /\ markRevealed(requestId, RevealedValue(results))
         /\ accumulate(requestId, RevealedValue(results))
         /\ events' = Append(events, ContributionDecrypted(requestToUpdateId[requestId]))
         /\ UNCHANGED <<updateCount, encryptedUpdates, requestToUpdateId,
                        counterRequest, blockTimestamp, totalValue>>

\* mutant: the record is written before the proof is verified, and a
\* rejected proof ends the call without a revert
decryptContribution_WriteFirst(requestId, cleartexts, proof) ==
    LET updateId == requestToUpdateId[requestId]
        decoded == AbiDecodeUint32Array(cleartexts)
        results == decoded.results
    IN
    IF updateId = 0 \/ ~decoded.ok \/ Len(results) = 0
    THEN UNCHANGED vars
    ELSE IF ~CheckSignatures(requestId, cleartexts, proof)
    THEN /\ markRevealed(updateId, RevealedValue(results))
         /\ UNCHANGED <<updateCount, encryptedUpdates, encryptedContributionTotals,
                        participantList, requestToUpdateId, counterRequest,
                        events, blockTimestamp, totalValue>>
    ELSE /\ Reveals < MaxReveals
         /\ markRevealed(updateId, RevealedValue(results))
         /\ accumulate(updateId, RevealedValue(results))
         /\ events' = Append(events, ContributionDecrypted(updateId))
         /\ UNCHANGED <<updateCount, encryptedUpdates, requestToUpdateId,
                        counterRequest, blockTimestamp, totalValue>>

decryptContribution(requestId, cleartexts, proof) ==
    LET updateId == requestToUpdateId[requestId]
        results == AbiDecodeUint32Array(cleartexts).results
    IN
    IF decryptContributionResult(requestId, cleartexts, proof) # "ok"
    THEN UNCHANGED vars
    ELSE /\ Reveals < MaxReveals
         /\ markRevealed(updateId, RevealedValue(results))
         /\ accumulate(updateId, RevealedValue(results))
         /\ events' = Append(events, ContributionDecrypted(updateId))
         /\ UNCHANGED <<updateCount, encryptedUpdates, requestToUpdateId,
                        counterRequest, blockTimestamp, totalValue>>

\* view function
getDecryptedContribution(updateId) ==
    LET c == decryptedContributions[updateId] IN
    <<c.participantId, c.shapleyValue, c.isRevealed>>

\* view function
getEncryptedContributionTotal(updateId) == encryptedContributionTotals[updateId]

\* mutant: the require on the total is missing
requestContributionTotalDecryptionResult_NoGuard(updateId) == "ok"

\* outcome of requestContributionTotalDecryption(updateId)
requestContributionTotalDecryptionResult(updateId) ==
    LET total == encryptedContributionTotals[updateId] IN
    IF ~IsInitialized(total) THEN "Update not found" ELSE "ok"

\* mutant: the total request emits DecryptionRequested like the individual one
requestContributionTotalDecryption_Emits(updateId) ==
    IF requestContributionTotalDecryptionResult(updateId) # "ok"
    THEN UNCHANGED vars
    ELSE /\ counterRequest < MaxRequests
         /\ LET reqId == counterRequest IN
            /\ counterRequest' = counterRequest + 1
            /\ requestToUpdateId' = [requestToUpdateId EXCEPT ![reqId] = updateId]
            /\ events' = Append(events, DecryptionRequested(updateId))
         /\ UNCHANGED <<updateCount, encryptedUpdates, decryptedContributions,
                        encryptedContributionTotals, participantList,
                        blockTimestamp, totalValue>>

requestContributionTotalDecryption(updateId) ==
    IF requestContributionTotalDecryptionResult(updateId) # "ok"
    THEN UNCHANGED vars
    ELSE /\ counterRequest < MaxRequests
         /\ LET reqId == counterRequest IN
            /\ counterRequest' = counterRequest + 1
            /\ requestToUpdateId' = [requestToUpdateId EXCEPT ![reqId] = updateId]
         /\ UNCHANGED <<updateCount, encryptedUpdates, decryptedContributions,
                        encryptedContributionTotals, participantList, events,
                        blockTimestamp, totalValue>>

\* outcome of decryptTotalContribution(requestId, cleartexts, proof)
decryptTotalContributionResult(requestId, cleartexts, proof) ==
    LET updateId == requestToUpdateId[requestId]
        decoded == AbiDecodeUint32(cleartexts)
    IN
    IF ~CheckSignatures(requestId, cleartexts, proof) THEN "Invalid signatures"
    ELSE IF ~decoded.ok THEN "Decode failed"
    ELSE "ok"

\* mutant: the total callback marks the record like the individual callback
decryptTotalContribution_Marks(requestId, cleartexts, proof) ==
    IF decryptTotalContributionResult(requestId, cleartexts, proof) # "ok"
    THEN UNCHANGED vars
    ELSE /\ totalValue' = AbiDecodeUint32(cleartexts).results[1]
         /\ decryptedContributions' =
                [decryptedContributions EXCEPT
                    ![requestToUpdateId[requestId]].isRevealed = TRUE]
         /\ UNCHANGED <<updateCount, encryptedUpdates, encryptedContributionTotals,
                        participantList, requestToUpdateId, counterRequest,
                        events, blockTimestamp>>

decryptTotalContribution(requestId, cleartexts, proof) ==
    IF decryptTotalContributionResult(requestId, cleartexts, proof) # "ok"
    THEN UNCHANGED vars
    ELSE /\ totalValue' = AbiDecodeUint32(cleartexts).results[1]
         /\ UNCHANGED <<storage, blockTimestamp>>

Next ==
    \/ \E w \in WeightInputs, m \in MetricInputs, t \in Timestamps :
          submitEncryptedUpdate(w, m, t)
    \/ \E updateId \in UpdateIds : requestUpdateDecryption(updateId)
    \/ \E requestId \in RequestIds, cleartexts \in CleartextInputs, proof \in Proofs :
          decryptContribution(requestId, cleartexts, proof)
    \/ \E updateId \in UpdateIds : requestContributionTotalDecryption(updateId)
    \/ \E requestId \in RequestIds, cleartexts \in TotalCleartextInputs, proof \in Proofs :
          decryptTotalContribution(requestId, cleartexts, proof)

Spec == Init /\ [][Next]_vars

(* ======================================================================= *)
(* Properties                                                              *)
(* ======================================================================= *)
\* the events of one name, in log order
EventsNamed(name) == SelectSeq(events, LAMBDA e : e.name = name)

\* positions of the log that hold the event e
PositionsOf(e) == {k \in 1..Len(events) : events[k] = e}

\* request ids FHE.requestDecryption has returned so far
IssuedRequestIds == {r \in RequestIds : r < counterRequest}

\* C1: the k-th successful submitEncryptedUpdate is assigned id k: the ids of
\* the UpdateSubmitted events are 1, 2, ... in log order, whatever other
\* events lie between them, and the counter equals the number of submissions.
C1_IdsStartAtOneAndIncrease ==
    LET submitted == EventsNamed("UpdateSubmitted") IN
    /\ Len(submitted) = updateCount
    /\ \A k \in 1..Len(submitted) :
          /\ submitted[k].args[1] = k
          /\ encryptedUpdates[k].id = k
          /\ decryptedContributions[k].participantId = k

\* two submissions with a request and an accepted callback between them
C1_Witness ==
    \E i, j, k, l \in 1..Len(events) :
        /\ i < j /\ j < k /\ k < l
        /\ events[i].name = "UpdateSubmitted"
        /\ events[j].name = "DecryptionRequested"
        /\ events[k].name = "ContributionDecrypted"
        /\ events[l].name = "UpdateSubmitted"

\* C2: requestUpdateDecryption(id) on an id whose record is revealed fails
\* with "Already decrypted", stores no tracker entry and emits no event.
C2_RevealedRequestRejected ==
    [][\A id \in UpdateIds :
          decryptedContributions[id].isRevealed =>
             /\ requestUpdateDecryptionResult(id) = "Already decrypted"
             /\ requestUpdateDecryption(id) =>
                   UNCHANGED <<requestToUpdateId, counterRequest, events>>]_vars

\* a revealed record while a request id is still free to be handed out
C2_Witness ==
    \E id \in UpdateIds :
        /\ decryptedContributions[id].isRevealed
        /\ counterRequest < MaxRequests
        /\ requestUpdateDecryptionResult(id) = "Already decrypted"

\* C3: decryptContribution with a request id that was never returned by a
\* request fails with "Invalid request", for every payload and every proof.
C3_UnknownRequestRejected ==
    \A requestId \in RequestIds \ IssuedRequestIds :
        \A cleartexts \in CleartextInputs, proof \in Proofs :
            decryptContributionResult(requestId, cleartexts, proof) = "Invalid request"

\* some request ids are issued and resolve, others were never issued
C3_Witness ==
    /\ \E r \in IssuedRequestIds : requestToUpdateId[r] # 0
    /\ \E r \in RequestIds \ IssuedRequestIds :
          decryptContributionResult(r, <<Small(32), Small(1), One32>>, "valid")
             = "Invalid request"

\* C4 as stated: a proof the verifier rejects makes decryptContribution fail
\* with the verification failure whether or not the request id is known.
C4_Original ==
    \A requestId \in RequestIds, cleartexts \in CleartextInputs, proof \in Proofs :
        ~CheckSignatures(requestId, cleartexts, proof) =>
            decryptContributionResult(requestId, cleartexts, proof) = "Invalid signatures"

\* C4 amended: a proof the verifier rejects always makes decryptContribution
\* fail; the failure is the verification failure when the request id resolves
\* to an update id, and "Invalid request" when it does not, because the
\* request id is resolved before the proof is verified.
C4_RejectedProofFails ==
    \A requestId \in RequestIds, cleartexts \in CleartextInputs, proof \in Proofs :
        ~CheckSignatures(requestId, cleartexts, proof) =>
            decryptContributionResult(requestId, cleartexts, proof) =
                IF requestToUpdateId[requestId] = 0 THEN "Invalid request"
                                                    ELSE "Invalid signatures"

\* a request id that resolves and one that does not, both met with a forged
\* proof; the payload of the first does not decode
C4_Witness ==
    /\ \E r \in RequestIds :
          /\ requestToUpdateId[r] # 0
          /\ decryptContributionResult(r, <<>>, "forged") = "Invalid signatures"
    /\ \E r \in RequestIds :
          decryptContributionResult(r, <<>>, "forged") = "Invalid request"

\* first word of the first element of an array payload in the standard
\* encoding (offset word, length word, elements)
FirstCleartext(cleartexts) == cleartexts[3]

\* the latest UpdateSubmitted event of id has no ContributionDecrypted event
\* of id after it
NoRevealSinceSubmit(id) ==
    \A k \in 1..Len(events) :
        events[k] = ContributionDecrypted(id) =>
            \E l \in (k + 1)..Len(events) :
                events[l].name = "UpdateSubmitted" /\ events[l].args[1] = id

\* C5: round trip.  After every call that changes storage, a submitted id
\* reads (id, 0, false) as long as no callback was accepted for it; and an
\* accepted decryptContribution whose request id resolves to a submitted id
\* leaves getDecryptedContribution(id) = (id, v, true), v being the first
\* element of the cleartext list.
C5_RoundTrip ==
    [][storage' # storage =>
        /\ \A id \in 1..updateCount' :
              NoRevealSinceSubmit(id)' =>
                  getDecryptedContribution(id)' = <<id, Zero32, FALSE>>
        /\ \A requestId \in RequestIds, cleartexts \in CleartextInputs, proof \in Proofs :
              LET id == requestToUpdateId[requestId] IN
              ( /\ id \in 1..updateCount
                /\ decryptContributionResult(requestId, cleartexts, proof) = "ok"
                /\ decryptContribution(requestId, cleartexts, proof) )
              => getDecryptedContribution(id)' = <<id, FirstCleartext(cleartexts), TRUE>>
      ]_vars

\* a submitted id revealed with the value 2^32 - 1
C5_Witness ==
    \E id \in 1..updateCount :
        /\ getDecryptedContribution(id) = <<id, MaxUint32, TRUE>>
        /\ DecryptionRequested(id) \in {events[k] : k \in 1..Len(events)}
        /\ events[Len(events)] = ContributionDecrypted(id)

\* C6: no cross-id mixing.  An accepted decryptContribution whose request id
\* resolves to id i leaves the record and the total (value and initialized
\* flag) of every other id as they were.
C6_NoCrossIdMixing ==
    [][storage' # storage =>
        \A requestId \in RequestIds, cleartexts \in CleartextInputs, proof \in Proofs :
            ( /\ decryptContributionResult(requestId, cleartexts, proof) = "ok"
              /\ decryptContribution(requestId, cleartexts, proof) )
            => \A j \in UpdateIds \ {requestToUpdateId[requestId]} :
                  /\ decryptedContributions'[j] = decryptedContributions[j]
                  /\ encryptedContributionTotals'[j] = encryptedContributionTotals[j]
      ]_vars

\* two ids revealed with different values, the later one second in the log
C6_Witness ==
    /\ Len(events) >= 2
    /\ events[Len(events)] = ContributionDecrypted(2)
    /\ ContributionDecrypted(1) \in {events[k] : k \in 1..Len(events)}
    /\ decryptedContributions[1].shapleyValue # decryptedContributions[2].shapleyValue
    /\ encryptedContributionTotals[1].plain # encryptedContributionTotals[2].plain

\* C7: requestContributionTotalDecryption(id) fails with "Update not found"
\* and stores no tracker entry exactly when id has no initialized total, that
\* is when no callback was ever accepted for id; otherwise it succeeds and
\* maps the request id it is handed to id.
C7_TotalRequestNeedsAggregate ==
    [][\A id \in UpdateIds :
          /\ IsInitialized(encryptedContributionTotals[id])
                <=> PositionsOf(ContributionDecrypted(id)) # {}
          /\ requestContributionTotalDecryptionResult(id) =
                IF IsInitialized(encryptedContributionTotals[id])
                THEN "ok" ELSE "Update not found"
          /\ requestContributionTotalDecryption(id) =>
                IF IsInitialized(encryptedContributionTotals[id])
                THEN requestToUpdateId' =
                        [requestToUpdateId EXCEPT ![counterRequest] = id]
                ELSE UNCHANGED <<requestToUpdateId, counterRequest>>
      ]_vars

\* request ids handed out to requestContributionTotalDecryption so far
TotalLaneRequests == counterRequest - Len(EventsNamed("DecryptionRequested"))

\* a tracker entry stored by a total request for an id that has a total,
\* while another submitted id has none
C7_Witness ==
    /\ TotalLaneRequests > 0
    /\ \E r \in IssuedRequestIds :
          IsInitialized(encryptedContributionTotals[requestToUpdateId[r]])
    /\ \E j \in 1..updateCount :
          requestContributionTotalDecryptionResult(j) = "Update not found"

\* C8: a call that fails changes nothing: the counter, both ledgers, the
\* totals, the participant list, the tracker and the event log are as before
\* the call, whatever the reason of the failure.
C8_FailedCallChangesNothing ==
    [][storage' # storage =>
        /\ \A id \in UpdateIds :
              /\ ( requestUpdateDecryptionResult(id) # "ok"
                    /\ requestUpdateDecryption(id) ) => UNCHANGED storage
              /\ ( requestContributionTotalDecryptionResult(id) # "ok"
                    /\ requestContributionTotalDecryption(id) ) => UNCHANGED storage
        /\ \A requestId \in RequestIds, proof \in Proofs :
              /\ \A cleartexts \in CleartextInputs :
                    ( decryptContributionResult(requestId, cleartexts, proof) # "ok"
                      /\ decryptContribution(requestId, cleartexts, proof) )
                    => UNCHANGED storage
              /\ \A cleartexts \in TotalCleartextInputs :
                    ( decryptTotalContributionResult(requestId, cleartexts, proof) # "ok"
                      /\ decryptTotalContribution(requestId, cleartexts, proof) )
                    => UNCHANGED storage
      ]_vars

\* a state in which each kind of failure can be met: a revealed id, an id
\* without a total, a request id that resolves and one that does not
C8_Witness ==
    /\ \E id \in UpdateIds : requestUpdateDecryptionResult(id) = "Already decrypted"
    /\ \E id \in 1..updateCount :
          requestContributionTotalDecryptionResult(id) = "Update not found"
    /\ \E r \in RequestIds :
          /\ decryptContributionResult(r, <<>>, "forged") = "Invalid signatures"
          /\ decryptContributionResult(r, <<>>, "valid") = "Decode failed"
          /\ decryptContributionResult(r, <<Small(32), Small(0)>>, "valid")
                = "Index out of bounds"
    /\ \E r \in RequestIds :
          decryptContributionResult(r, <<>>, "valid") = "Invalid request"

\* C9 as stated: an accepted callback consumes its request: once
\* decryptContribution is accepted for a request id (issued for a submitted
\* id), every later decryptContribution with that request id fails with
\* "Invalid request".
C9_Original ==
    [][storage' # storage =>
        \A requestId \in RequestIds, cleartexts \in CleartextInputs, proof \in Proofs :
            ( /\ requestToUpdateId[requestId] \in 1..updateCount
              /\ decryptContributionResult(requestId, cleartexts, proof) = "ok"
              /\ decryptContribution(requestId, cleartexts, proof) )
            => \A again \in CleartextInputs, proofAgain \in Proofs :
                  decryptContributionResult(requestId, again, proofAgain)'
                     = "Invalid request"
      ]_vars

\* C10 as stated: decryptTotalContribution with a request id that was never
\* issued fails with "Invalid request", for every payload and every proof.
C10_Original ==
    \A requestId \in RequestIds \ IssuedRequestIds :
        \A cleartexts \in TotalCleartextInputs, proof \in Proofs :
            decryptTotalContributionResult(requestId, cleartexts, proof)
               = "Invalid request"

\* C11 as stated: revealed is terminal.  Once the record of a submitted id is
\* revealed, no later call changes its value, its flag or the record itself.
C11_Original ==
    [][\A id \in 1..updateCount :
          decryptedContributions[id].isRevealed =>
              decryptedContributions'[id] = decryptedContributions[id]]_vars

\* C12 as stated: a request id handed to requestContributionTotalDecryption
\* is never accepted by decryptContribution, whatever the payload and proof.
C12_Original ==
    [][storage' # storage =>
        \A id \in 1..updateCount, reqId \in RequestIds :
            ( /\ reqId = counterRequest
              /\ requestContributionTotalDecryptionResult(id) = "ok"
              /\ requestContributionTotalDecryption(id) )
            => \A cleartexts \in CleartextInputs, proof \in Proofs :
                  decryptContributionResult(reqId, cleartexts, proof)' # "ok"
      ]_vars

\* C13 as stated: every mapping stored in the tracker leads to an id that an
\* earlier submitEncryptedUpdate returned (an entry that reads 0 counts as
\* no mapping).
C13_Original ==
    \A r \in RequestIds :
        requestToUpdateId[r] # 0 => requestToUpdateId[r] \in 1..updateCount

\* C14: reveal provenance.  decryptContribution is accepted only for a request
\* id that a request has returned, that the tracker maps to an update id, and
\* with a proof that passes verification; and every revealed record has a
\* ContributionDecrypted event of its id in the log and a tracker entry
\* that maps to its id, so nothing else sets isRevealed.
C14_RevealProvenance ==
    /\ \A requestId \in RequestIds, cleartexts \in CleartextInputs, proof \in Proofs :
          decryptContributionResult(requestId, cleartexts, proof) = "ok" =>
              /\ requestId \in IssuedRequestIds
              /\ requestToUpdateId[requestId] # 0
              /\ CheckSignatures(requestId, cleartexts, proof)
    /\ \A id \in UpdateIds :
          decryptedContributions[id].isRevealed =>
              /\ PositionsOf(ContributionDecrypted(id)) # {}
              /\ \E r \in IssuedRequestIds : requestToUpdateId[r] = id

\* two revealed records, each with its own request id
C14_Witness ==
    /\ decryptedContributions[1].isRevealed
    /\ decryptedContributions[2].isRevealed
    /\ \E r1, r2 \in IssuedRequestIds :
          requestToUpdateId[r1] = 1 /\ requestToUpdateId[r2] = 2

\* plaintext under a total; an uninitialized total stands for the identity 0
PlainOfTotal(id) ==
    IF IsInitialized(encryptedContributionTotals[id])
    THEN encryptedContributionTotals[id].plain ELSE Zero32

\* C15: running sum.  Totals change only in an accepted decryptContribution,
\* which adds the first cleartext element, modulo 2^32, to the total of the
\* resolved id, counting from 0 for a total not yet initialized; so a total
\* is the sum of the values of all callbacks accepted for its id, and after
\* a single accepted reveal of v it is exactly v.
C15_RunningSum ==
    [][storage' # storage =>
        /\ \A requestId \in RequestIds, cleartexts \in CleartextInputs, proof \in Proofs :
              LET id == requestToUpdateId[requestId] IN
              ( /\ decryptContributionResult(requestId, cleartexts, proof) = "ok"
                /\ decryptContribution(requestId, cleartexts, proof) )
              => encryptedContributionTotals'[id] =
                    [initialized |-> TRUE,
                     plain |-> Add32(PlainOfTotal(id), FirstCleartext(cleartexts))]
        /\ encryptedContributionTotals' # encryptedContributionTotals =>
              /\ Len(events') = Len(events) + 1
              /\ events'[Len(events')].name = "ContributionDecrypted"
        /\ \A id \in UpdateIds :
              ( /\ Cardinality(PositionsOf(ContributionDecrypted(id))') = 1
                /\ decryptedContributions'[id].isRevealed )
              => encryptedContributionTotals'[id] =
                    AsEuint32(decryptedContributions'[id].shapleyValue)
      ]_vars

\* a total that wrapped around: 2^32 - 1 and 1 were accepted for one id
C15_Witness ==
    \E id \in UpdateIds :
        /\ Cardinality(PositionsOf(ContributionDecrypted(id))) = 2
        /\ encryptedContributionTotals[id] = AsEuint32(Zero32)

\* C16: for every id the aggregate total is uninitialized as long as no
\* callback was accepted for the id (no ContributionDecrypted(id) in the
\* log), it becomes initialized only in the step that appends that event,
\* and an initialized total is initialized in every later state.
C16_TotalInitializedMonotone ==
    [][\A id \in UpdateIds :
          /\ PositionsOf(ContributionDecrypted(id)) = {} =>
                ~IsInitialized(encryptedContributionTotals[id])
          /\ IsInitialized(encryptedContributionTotals[id]) =>
                IsInitialized(encryptedContributionTotals'[id])
          /\ ( /\ ~IsInitialized(encryptedContributionTotals[id])
               /\ IsInitialized(encryptedContributionTotals'[id]) )
             => events' = Append(events, ContributionDecrypted(id))
      ]_vars

\* an id whose total was initialized by a callback accepted before the id
\* was submitted, and that has been submitted since
C16_Witness ==
    \E id \in 1..updateCount :
        /\ IsInitialized(encryptedContributionTotals[id])
        /\ ~decryptedContributions[id].isRevealed
        /\ \E i \in PositionsOf(ContributionDecrypted(id)), j \in DOMAIN events :
              i < j /\ events[j].name = "UpdateSubmitted" /\ events[j].args[1] = id

\* position in the log of the first callback accepted for id
FirstReveal(id) ==
    CHOOSE i \in PositionsOf(ContributionDecrypted(id)) :
        \A j \in PositionsOf(ContributionDecrypted(id)) : i <= j

\* C17: participantList holds exactly the ids whose total is initialized,
\* each once, in the order of their first accepted callback; a step only
\* ever appends to it, and a callback accepted for an id already listed
\* leaves it unchanged.
C17_ParticipantIndex ==
    [][/\ { participantList[i] : i \in DOMAIN participantList }
            = { id \in UpdateIds : IsInitialized(encryptedContributionTotals[id]) }
       /\ \A i, j \in DOMAIN participantList :
             i < j => /\ participantList[i] # participantList[j]
                      /\ FirstReveal(participantList[i]) < FirstReveal(participantList[j])
       /\ \/ participantList' = participantList
          \/ \E id \in UpdateIds :
                /\ \A i \in DOMAIN participantList : participantList[i] # id
                /\ participantList' = Append(participantList, id)
                /\ events' = Append(events, ContributionDecrypted(id))
      ]_vars

\* two callbacks were accepted for one id, which is listed once
C17_Witness ==
    /\ participantList = <<2>>
    /\ Cardinality(PositionsOf(ContributionDecrypted(2))) = 2

\* C18: every ContributionDecrypted(id) in the log comes after a
\* DecryptionRequested(id), which only a successful
\* requestUpdateDecryption(id) emits, and a record becomes revealed only in
\* a state whose log already holds DecryptionRequested for its id.
C18_RequestBeforeReveal ==
    [][/\ \A k \in DOMAIN events :
             events[k].name = "ContributionDecrypted" =>
                 \E j \in 1..(k - 1) : events[j] = DecryptionRequested(events[k].args[1])
       /\ \A id \in UpdateIds :
             ( /\ ~decryptedContributions[id].isRevealed
               /\ decryptedContributions'[id].isRevealed )
             => /\ PositionsOf(DecryptionRequested(id)) # {}
                /\ events' = Append(events, ContributionDecrypted(id))
      ]_vars

\* the lane in order: id 1 submitted, then requested, then revealed
C18_Witness ==
    /\ decryptedContributions[1].isRevealed
    /\ \E i, j, k \in DOMAIN events :
          /\ i < j /\ j < k
          /\ events[i].name = "UpdateSubmitted" /\ events[i].args[1] = 1
          /\ events[j] = DecryptionRequested(1)
          /\ events[k] = ContributionDecrypted(1)

\* C19: a stored update is immutable.  Every update stored under a submitted
\* id carries that id and is the same in the next state, whatever the step;
\* ids not yet submitted hold no update; and a submission changes only the
\* counter, the update and the record of the new id (and logs
\* UpdateSubmitted with the stored timestamp).
C19_UpdateImmutable ==
    [][/\ \A id \in UpdateIds :
             IF id \in 1..updateCount
             THEN /\ encryptedUpdates[id].id = id
                  /\ encryptedUpdates'[id] = encryptedUpdates[id]
             ELSE encryptedUpdates[id] = EmptyUpdate
       /\ updateCount' # updateCount =>
             LET newId == updateCount + 1 IN
             /\ updateCount' = newId
             /\ \A id \in UpdateIds \ {newId} :
                   /\ encryptedUpdates'[id] = encryptedUpdates[id]
                   /\ decryptedContributions'[id] = decryptedContributions[id]
             /\ encryptedUpdates'[newId].id = newId
             /\ encryptedUpdates'[newId].encryptedWeights \in WeightInputs
             /\ encryptedUpdates'[newId].encryptedMetrics \in MetricInputs
             /\ events' = Append(events,
                    UpdateSubmitted(newId, encryptedUpdates'[newId].timestamp))
             /\ decryptedContributions'[newId] =
                    [participantId |-> newId, shapleyValue |-> Zero32,
                     isRevealed |-> FALSE]
             /\ UNCHANGED <<encryptedContributionTotals, participantList,
                            requestToUpdateId, counterRequest>>
       /\ updateCount' = updateCount => encryptedUpdates' = encryptedUpdates
      ]_vars

\* two stored updates, the first of them requested and revealed before the
\* second was submitted
C19_Witness ==
    /\ updateCount = 2
    /\ decryptedContributions[1].isRevealed
    /\ encryptedUpdates[1].timestamp < encryptedUpdates[2].timestamp
    /\ \E i, j \in DOMAIN events :
          /\ i < j
          /\ events[i] = ContributionDecrypted(1)
          /\ events[j].name = "UpdateSubmitted" /\ events[j].args[1] = 2

\* C20: a call of decryptTotalContribution, accepted or rejected, leaves the
\* counter, both ledgers, the totals, the participant list, the tracker and
\* the event log as they were: no step that changes any of them is a step
\* of decryptTotalContribution, and the step that delivers a decoded total
\* is an accepted call that changes none of them.
C20_TotalCallbackFrame ==
    [][/\ storage' # storage =>
             \A requestId \in RequestIds, cleartexts \in TotalCleartextInputs,
                proof \in Proofs :
                 ~decryptTotalContribution(requestId, cleartexts, proof)
       /\ totalValue' # totalValue =>
             /\ storage' = storage
             /\ \E requestId \in RequestIds, cleartexts \in TotalCleartextInputs,
                   proof \in Proofs :
                   /\ decryptTotalContributionResult(requestId, cleartexts, proof) = "ok"
                   /\ decryptTotalContribution(requestId, cleartexts, proof)
      ]_vars

\* a total callback was accepted after a total request, on a contract that
\* holds an update, a revealed record and an initialized total
C20_Witness ==
    /\ totalValue = One32
    /\ TotalLaneRequests > 0
    /\ \E id \in 1..updateCount :
          /\ decryptedContributions[id].isRevealed
          /\ IsInitialized(encryptedContributionTotals[id])

\* C21: re-issuance.  For a submitted id whose record is not revealed,
\* requestUpdateDecryption succeeds however many requests for the id are
\* pending; a successful call stores the id under the next request id, which
\* no earlier request used, and leaves every earlier tracker entry as it
\* was; and the callback of every issued request for a submitted id is
\* accepted when its proof verifies and its payload holds a value.
C21_ReissuanceAlwaysPossible ==
    [][/\ \A id \in 1..updateCount :
             ~decryptedContributions[id].isRevealed =>
                 requestUpdateDecryptionResult(id) = "ok"
       /\ \A r \in IssuedRequestIds :
             requestToUpdateId[r] \in 1..updateCount =>
                 \A v \in Plain :
                     decryptContributionResult(r, <<Small(32), Small(1), v>>, "valid")
                         = "ok"
       /\ storage' # storage =>
             \A id \in 1..updateCount, reqId \in RequestIds :
                 ( /\ reqId = counterRequest
                   /\ requestUpdateDecryptionResult(id) = "ok"
                   /\ requestUpdateDecryption(id) )
                 => /\ reqId \notin IssuedRequestIds
                    /\ counterRequest' = reqId + 1
                    /\ requestToUpdateId'[reqId] = id
                    /\ \A r \in IssuedRequestIds :
                          requestToUpdateId'[r] = requestToUpdateId[r]
      ]_vars

\* two requests are pending for the submitted, unrevealed id 1
C21_Witness ==
    /\ updateCount >= 1
    /\ ~decryptedContributions[1].isRevealed
    /\ counterRequest = 2
    /\ requestToUpdateId[0] = 1
    /\ requestToUpdateId[1] = 1
    /\ Len(EventsNamed("DecryptionRequested")) = 2
    /\ events[1].name = "UpdateSubmitted"

\* requests issued in the individual lane whose target is not revealed
PendingRequests ==
    { r \in IssuedRequestIds :
        ~decryptedContributions[requestToUpdateId[r]].isRevealed }

\* C22: nothing waits for a callback.  In every reachable state, whatever
\* requests are pending, a submission of any pair of handles in a block not
\* older than the last one is enabled and assigns the next id (up to the
\* bound on the number of submissions explored), and some operation is
\* enabled, so no state is a deadlock.
C22_SubmitNeverBlocked ==
    /\ updateCount < MaxUpdates =>
          \A w \in WeightInputs, m \in MetricInputs, t \in Timestamps :
              t >= blockTimestamp =>
                  ENABLED ( /\ submitEncryptedUpdate(w, m, t)
                            /\ updateCount' = updateCount + 1 )
    /\ ENABLED Next

\* both requests are pending, no callback has arrived, and a submission
\* made after them succeeded
C22_Witness ==
    /\ Cardinality(PendingRequests) = 2
    /\ EventsNamed("ContributionDecrypted") = <<>>
    /\ Len(events) = 4
    /\ events[3].name = "DecryptionRequested"
    /\ events[4].name = "UpdateSubmitted"

\* C23: events match transitions one to one.  A submission appends exactly
\* UpdateSubmitted(newId, timestamp) with the id and timestamp it stored; a
\* successful requestUpdateDecryption(id) appends exactly
\* DecryptionRequested(id); an accepted decryptContribution appends exactly
\* ContributionDecrypted(id) for the resolved id, in the state where the
\* record is revealed and the total initialized; a total request that
\* stores a tracker entry and a total callback append nothing; and the log
\* grows in no other way.
C23_EventsMatchTransitions ==
    [][/\ updateCount' # updateCount =>
             events' = Append(events,
                 UpdateSubmitted(updateCount', encryptedUpdates'[updateCount'].timestamp))
       /\ storage' # storage =>
             /\ \A id \in UpdateIds :
                   ( /\ requestUpdateDecryptionResult(id) = "ok"
                     /\ requestUpdateDecryption(id) )
                   => events' = Append(events, DecryptionRequested(id))
             /\ \A requestId \in RequestIds, cleartexts \in CleartextInputs,
                   proof \in Proofs :
                   LET id == requestToUpdateId[requestId] IN
                   ( /\ decryptContributionResult(requestId, cleartexts, proof) = "ok"
                     /\ decryptContribution(requestId, cleartexts, proof) )
                   => /\ events' = Append(events, ContributionDecrypted(id))
                      /\ decryptedContributions'[id].isRevealed
                      /\ IsInitialized(encryptedContributionTotals'[id])
             /\ \A id \in UpdateIds :
                   requestContributionTotalDecryption(id) => events' = events
       /\ totalValue' # totalValue => events' = events
       /\ events' # events =>
             /\ Len(events') = Len(events) + 1
             /\ SubSeq(events', 1, Len(events)) = events
             /\ \/ updateCount' = updateCount + 1
                \/ \E id \in UpdateIds :
                      /\ requestUpdateDecryptionResult(id) = "ok"
                      /\ requestUpdateDecryption(id)
                \/ \E requestId \in RequestIds, cleartexts \in CleartextInputs,
                      proof \in Proofs :
                      /\ decryptContributionResult(requestId, cleartexts, proof) = "ok"
                      /\ decryptContribution(requestId, cleartexts, proof)
       /\ Len(EventsNamed("UpdateSubmitted")) = updateCount
       /\ Len(EventsNamed("DecryptionRequested")) <= counterRequest
      ]_vars

\* every kind of transition has happened: the log holds one event of each
\* kind, and a total request and a total callback have left no event
C23_Witness ==
    /\ Len(events) = 3
    /\ events[1].name = "UpdateSubmitted"
    /\ events[2] = DecryptionRequested(1)
    /\ events[3] = ContributionDecrypted(1)
    /\ counterRequest = 2
    /\ requestToUpdateId[1] = 1
    /\ TotalLaneRequests = 1
    /\ totalValue = One32

\* C24 as stated: for every id the record is revealed exactly when the
\* aggregate total of the id is initialized.
C24_Original ==
    \A id \in UpdateIds :
        decryptedContributions[id].isRevealed
            <=> IsInitialized(encryptedContributionTotals[id])
====
